---- MODULE Spec2Model ----
(***************************************************************************)
(* Model of 2_Training_MIL/MIL_train_resnet18_MIL_LightningModule.py:      *)
(* the MILdataset tile index, the per-epoch inference / top-k selection /  *)
(* subset building done by MIL_Module, and its validation metrics.         *)
(*                                                                         *)
(* numpy arrays and Python lists are functions over 0..n-1, so that the    *)
(* slice arithmetic of the source (negative starts and stops) is kept.     *)
(* Probabilities are integers in percent.                                  *)
(***************************************************************************)
EXTENDS Integers, Sequences, FiniteSets, TLC

VARIABLES
    pc,         \* position of the modelled run
    groups,     \* group_argtopk: slide index per tile
    data,       \* group_argtopk: probability per tile
    k,          \* group_argtopk: args.k
    topk,       \* group_argtopk: the returned list, or an error value
    logits,     \* inference: model(input) of every dataset item, in loader order
    batch_size, \* inference: args.batch_size, also the loader's batch size
    batch_i,    \* inference: i, the batch counter of enumerate(loader)
    probs,      \* inference: the FloatTensor being filled
    writes,     \* inference: how many times each position was assigned
    manifest,   \* MILdataset: the rows of CRC_DX_<mode>_ALL.csv
    dataframe,  \* MILdataset: self.dataframe, the sorted rows with their Class
    slides,     \* MILdataset: self.slides
    grid,       \* MILdataset: self.grid
    slideIDX,   \* MILdataset: self.slideIDX
    targets,    \* MILdataset: self.targets
    t_data,     \* MILdataset: self.t_data
    made,       \* MILdataset: t_data as maketraindata left it
    pred,       \* calc_err: the hard predictions of a batch
    real,       \* calc_err: the ground truth of the batch
    metrics,    \* calc_err: the returned acc, err, fpr, fnr
    mode,       \* train_dataset.mode
    vmode,      \* val_dataset.mode
    vlen,       \* len(val_dataset.grid)
    train_i,    \* batch_idx of the next training_step
    val_i,      \* batch_idx of the next validation_step
    lastRead,   \* the last pass over train_dataset: who read it, and what
                \* its mode, its __len__ and its __getitem__ were
    vread       \* what validation_step last got from val_dataset

topkVars == <<groups, data, k, topk>>
inferVars == <<logits, batch_size, batch_i, probs, writes>>
dsVars == <<manifest, dataframe, slides, grid, slideIDX, targets>>
subsetVars == <<t_data, made>>
errVars == <<pred, real, metrics>>
epochVars == <<mode, vmode, vlen, train_i, val_i, lastRead, vread>>
vars == <<pc, groups, data, k, topk, logits, batch_size, batch_i,
          probs, writes, manifest, dataframe, slides, grid, slideIDX,
          targets, t_data, made, pred, real, metrics, mode, vmode, vlen,
          train_i, val_i, lastRead, vread>>

(* ---------------------------- bounds ---------------------------------- *)
MaxTiles == 4
NumSlides == 2
ProbLevels == {10, 40, 70, 90}
MaxLen == 4
MaxBatch == 3
Logit == {0, 1}
Garbage == {0, 50}
MaxRows == 3
MaxIdxs == 2
NaN == -1
Unset == 0
MaxEpochRows == 2
MaxEpochBatch == 2
MaxK == 2
MaxVal == 1
SubjectIds == {1, 2}
SliceIds == {"a", "b"}
Labels == {"MSI", "MSS", "other"}

(* ---------------------------- helpers --------------------------------- *)
Min(a, b) == IF a < b THEN a ELSE b
Max(a, b) == IF a > b THEN a ELSE b
len(a) == Cardinality(DOMAIN a)
Arrays(n, S) == [0 .. n - 1 -> S]
Range(a) == {a[i] : i \in DOMAIN a}

\* Python's slice bound normalisation for a sequence of length n:
\* a negative bound counts from the end, and every bound is clamped to 0..n.
SliceBound(b, n) == IF b < 0 THEN Max(n + b, 0) ELSE Min(b, n)

\* a[lo:hi], re-based at 0
Slice(a, lo, hi) ==
    LET s == SliceBound(lo, len(a))
        e == Max(SliceBound(hi, len(a)), s)
    IN  [i \in 0 .. e - s - 1 |-> a[s + i]]

(* ------------------------- group_argtopk ------------------------------ *)
\* np.lexsort((data, groups)): the permutation that sorts by groups, then by
\* data, positions breaking the remaining ties (the sort is stable).
Before(g, d, i, j) ==
    \/ g[i] < g[j]
    \/ g[i] = g[j] /\ d[i] < d[j]
    \/ g[i] = g[j] /\ d[i] = d[j] /\ i < j

lexsort(d, g) ==
    [p \in DOMAIN g |->
        CHOOSE i \in DOMAIN g :
            Cardinality({j \in DOMAIN g : Before(g, d, j, i)}) = p]

\* groups[order], data[order]
Take(a, order) == [p \in DOMAIN order |-> a[order[p]]]

\* list(order[index]): the entries of order at the positions where index is
\* TRUE, in position order
RECURSIVE Compress(_, _, _)
Compress(order, index, p) ==
    IF p >= len(order) THEN <<>>
    ELSE (IF index[p] THEN <<order[p]>> ELSE <<>>)
         \o Compress(order, index, p + 1)

\* a variant that keeps the first k entries of each sorted group
group_argtopk_first(g, d, kk) ==
    LET order  == lexsort(d, g)
        sg     == Take(g, order)
        n      == len(sg)
        index  == [p \in 0 .. n - 1 |->
                     IF p < SliceBound(kk, n) THEN TRUE
                     ELSE sg[p] # sg[p - kk]]
    IN  Compress(order, index, 0)

\* a variant without the assignment index[-k:] = True
group_argtopk_nolast(g, d, kk) ==
    LET order  == lexsort(d, g)
        sg     == Take(g, order)
        n      == len(sg)
        hi     == Slice(sg, kk, n)
        lo     == Slice(sg, 0, -kk)
        index  == [p \in 0 .. n - 1 |->
                     IF p < len(lo)
                     THEN (IF len(hi) = 1 THEN hi[0] ELSE hi[p]) # lo[p]
                     ELSE FALSE]
    IN  IF len(hi) # len(lo) /\ len(hi) # 1
        THEN "ValueError"
        ELSE Compress(order, index, 0)

\* index[-k:] = True; index[:-k] = groups[k:] != groups[:-k]
\* Assigning a comparison of another length than index[:-k] raises
\* ValueError, unless groups[k:] is one value that is broadcast.
group_argtopk(g, d, kk) ==
    LET order  == lexsort(d, g)
        sg     == Take(g, order)
        n      == len(sg)
        hi     == Slice(sg, kk, n)
        lo     == Slice(sg, 0, -kk)
        tail   == SliceBound(-kk, n)
        index  == [p \in 0 .. n - 1 |->
                     IF p >= tail THEN TRUE
                     ELSE IF p < len(lo)
                          THEN (IF len(hi) = 1 THEN hi[0] ELSE hi[p]) # lo[p]
                     ELSE FALSE]
    IN  IF len(hi) # len(lo) /\ len(hi) # 1
        THEN "ValueError"
        ELSE Compress(order, index, 0)

TopKIdle == groups = <<>> /\ data = <<>> /\ k = 0 /\ topk = <<>>

InferIdle ==
    logits = <<>> /\ batch_size = 0 /\ batch_i = 0 /\ probs = <<>> /\ writes = <<>>

DatasetIdle ==
    /\ manifest = <<>> /\ dataframe = <<>> /\ slides = <<>> /\ grid = <<>>
    /\ slideIDX = <<>> /\ targets = <<>> /\ t_data = <<>> /\ made = <<>>

NoRead == [by |-> "none", mode |-> Unset, length |-> 0, kind |-> "none"]

ErrIdle == pred = <<>> /\ real = <<>> /\ metrics = <<>>

EpochIdle ==
    /\ mode = Unset /\ vmode = Unset /\ vlen = 0 /\ train_i = 0 /\ val_i = 0
    /\ lastRead = NoRead /\ vread = "none"

InitTopK ==
    /\ pc = "call"
    /\ InferIdle
    /\ DatasetIdle
    /\ ErrIdle
    /\ EpochIdle
    /\ \E n \in 1 .. MaxTiles :
          /\ groups \in Arrays(n, 0 .. NumSlides - 1)
          /\ data \in Arrays(n, ProbLevels)
          /\ k \in 1 .. MaxTiles + 1
    /\ topk = <<>>

CallTopK ==
    /\ pc = "call"
    /\ topk' = group_argtopk(groups, data, k)
    /\ pc' = "returned"
    /\ UNCHANGED <<groups, data, k>>
    /\ UNCHANGED <<inferVars, dsVars, subsetVars, errVars, epochVars>>

NextTopK == CallTopK

SpecTopK == InitTopK /\ [][NextTopK]_vars

\* the tiles of slide s, and the tiles of slide s that were returned
TilesOf(s) == {i \in DOMAIN groups : groups[i] = s}
Selected == IF topk = "ValueError" THEN {} ELSE Range(topk)
Arr(seq) == [i \in 0 .. Len(seq) - 1 |-> seq[i + 1]]

\* C1: group_argtopk raises no error, returns no index twice, and returns for
\* every slide s exactly min(k, n_s) of the slide's n_s tiles.
C1_CountPerSlide ==
    pc = "returned" =>
        /\ topk # "ValueError"
        /\ Cardinality(Range(topk)) = len(topk)
        /\ Range(topk) \subseteq DOMAIN groups
        /\ \A s \in Range(groups) :
              Cardinality(TilesOf(s) \cap Range(topk))
                  = Min(k, Cardinality(TilesOf(s)))

\* a slide with more than k tiles next to a slide with fewer than k tiles
C1_Witness ==
    /\ pc = "returned"
    /\ k = 2
    /\ Cardinality(TilesOf(0)) = 3
    /\ Cardinality(TilesOf(1)) = 1
    /\ Cardinality(Selected) = 3

\* C2: within every slide, each returned tile has a probability >= that of
\* every tile of the slide that was not returned; slide A with (0.1, 0.9, 0.4)
\* and slide B with (0.7), k = 1, gives exactly {1, 3}.
C2_TopKCorrect ==
    pc = "returned" =>
        /\ \A i \in Selected : \A j \in TilesOf(groups[i]) \ Selected :
              data[i] >= data[j]
        /\ (groups = Arr(<<0, 0, 0, 1>>) /\ data = Arr(<<10, 90, 40, 70>>)
              /\ k = 1) => Selected = {1, 3}

C2_Witness ==
    /\ pc = "returned"
    /\ groups = Arr(<<0, 0, 0, 1>>)
    /\ data = Arr(<<10, 90, 40, 70>>)
    /\ k = 1
    /\ Selected = {1, 3}

(* ---------------------------- inference ------------------------------- *)
\* e^x in thousandths, for the logits of the model
Exp == [x \in Logit |-> IF x = 0 THEN 1000 ELSE 2718]

\* F.softmax(model(input), dim=1)[:, c] of one item, in percent
softmax(l, c) == (100 * Exp[l[c]]) \div (Exp[l[0]] + Exp[l[1]])

\* the i-th batch of DataLoader(dataset, batch_size=b, shuffle=False)
LoaderBatch(ds, b, n) == Slice(ds, n * b, n * b + b)
Batches(n, b) == (n + b - 1) \div b
NumBatches(ds, b) == Batches(len(ds), b)

\* a variant that strides by the size of the current batch
InferStartBySize(n, b, size) == n * size

\* i*self.args.batch_size, the start of the slice that batch i is written to
InferStart(n, b, size) == n * b

\* a[lo:hi] = vals, for vals of the slice's length
SliceAssign(a, lo, hi, vals) ==
    LET s == SliceBound(lo, len(a))
        e == Max(SliceBound(hi, len(a)), s)
    IN  [p \in DOMAIN a |-> IF s <= p /\ p < e THEN vals[p - s] ELSE a[p]]

SliceLen(a, lo, hi) ==
    Max(SliceBound(hi, len(a)), SliceBound(lo, len(a))) - SliceBound(lo, len(a))

\* one iteration of: for i, input in enumerate(loader), on the loop state
\* st = [probs, writes, i, err]. Assigning to a slice of another length
\* raises RuntimeError, unless a single value is broadcast.
InferStep(st, lg, b) ==
    LET input  == LoaderBatch(lg, b, st.i)
        size   == len(input)
        output == [p \in DOMAIN input |-> softmax(input[p], 1)]
        lo     == InferStart(st.i, b, size)
        hi     == lo + size
        n      == SliceLen(st.probs, lo, hi)
    IN  IF n # size /\ size # 1
        THEN [st EXCEPT !.err = TRUE, !.i = st.i + 1]
        ELSE [st EXCEPT
                !.probs = SliceAssign(st.probs, lo, hi,
                             [p \in 0 .. n - 1 |->
                                 IF size = 1 THEN output[0] ELSE output[p]]),
                !.writes = [p \in DOMAIN st.writes |->
                              IF SliceBound(lo, len(st.probs)) <= p
                                 /\ p < SliceBound(hi, len(st.probs))
                              THEN st.writes[p] + 1 ELSE st.writes[p]],
                !.i = st.i + 1]

\* the loop of inference(loader, model), run to the end of the loader
RECURSIVE InferLoop(_, _, _)
InferLoop(st, lg, b) ==
    IF st.err \/ st.i >= NumBatches(lg, b) THEN st
    ELSE InferLoop(InferStep(st, lg, b), lg, b)

\* a variant whose loader drops the last batch
inference_drop_last(lg, b, uninit) ==
    LET st == [probs |-> uninit, writes |-> [p \in DOMAIN uninit |-> 0],
               i |-> 0, err |-> FALSE]
    IN  IF NumBatches(lg, b) <= 1 THEN st
        ELSE InferLoop(st, Slice(lg, 0, (NumBatches(lg, b) - 1) * b), b)

\* inference(loader, model), from the allocation of probs to the return
inference(lg, b, uninit) ==
    InferLoop([probs |-> uninit, writes |-> [p \in DOMAIN uninit |-> 0],
               i |-> 0, err |-> FALSE], lg, b)

\* probs = torch.FloatTensor(len(loader.dataset)): uninitialised memory
InitInfer ==
    /\ pc = "infer"
    /\ TopKIdle
    /\ DatasetIdle
    /\ ErrIdle
    /\ EpochIdle
    /\ \E n \in 1 .. MaxLen :
          /\ logits \in Arrays(n, Arrays(2, Logit))
          /\ probs \in Arrays(n, Garbage)
          /\ writes = [p \in 0 .. n - 1 |-> 0]
    /\ batch_size \in 1 .. MaxBatch
    /\ batch_i = 0

InferBatch ==
    /\ pc = "infer"
    /\ batch_i < NumBatches(logits, batch_size)
    /\ LET st == InferStep([probs |-> probs, writes |-> writes,
                            i |-> batch_i, err |-> FALSE],
                           logits, batch_size)
       IN  /\ probs' = st.probs
           /\ writes' = st.writes
           /\ batch_i' = st.i
           /\ pc' = IF st.err THEN "RuntimeError" ELSE "infer"
    /\ UNCHANGED <<logits, batch_size>>
    /\ UNCHANGED <<topkVars, dsVars, subsetVars, errVars, epochVars>>

\* return probs.cpu().numpy()
InferReturn ==
    /\ pc = "infer"
    /\ batch_i >= NumBatches(logits, batch_size)
    /\ pc' = "inferred"
    /\ UNCHANGED <<inferVars, topkVars, dsVars, subsetVars, errVars, epochVars>>

NextInfer == InferBatch \/ InferReturn

SpecInfer == InitInfer /\ [][NextInfer]_vars

\* C3: when inference() has iterated the whole loader, every position of the
\* returned vector was written exactly once and holds the class-1
\* probability of the tile at that position of the dataset.
C3_InferenceAligned ==
    /\ pc # "RuntimeError"
    /\ pc = "inferred" =>
          /\ DOMAIN probs = DOMAIN logits
          /\ \A p \in DOMAIN probs :
                /\ writes[p] = 1
                /\ probs[p] = softmax(logits[p], 1)

\* a run whose last batch is partial
C3_Witness ==
    /\ pc = "inferred"
    /\ len(logits) = 4
    /\ batch_size = 3
    /\ batch_i = 2
    /\ \E p, q \in DOMAIN probs : probs[p] # probs[q]

(* ---------------------------- MILdataset ------------------------------ *)
Rows == [subject_id : SubjectIds, slice_id : SliceIds, label : Labels]

\* a variant that reads the rows in file order
FileOrderFrames(lib, keep) ==
    {[p \in DOMAIN lib |-> lib[p]]}

\* lib.sample(frac=subset_rate, random_state=2022).sort_values(['subject_id'],
\* ignore_index=True): the kept rows in an order of non-decreasing
\* subject_id. The sort is not stable, so rows of one subject may come in any
\* order; keep is every row when subset_rate is None.
SortedFrames(lib, keep) ==
    LET m == Cardinality(keep)
    IN  {[p \in 0 .. m - 1 |-> lib[f[p]]] :
            f \in {h \in [0 .. m - 1 -> keep] :
                     /\ \A p, q \in 0 .. m - 1 : p # q => h[p] # h[q]
                     /\ \A p, q \in 0 .. m - 1 :
                           p < q => lib[h[p]].subject_id <= lib[h[q]].subject_id}}

\* lib['subject_id'].unique(): the distinct values in order of appearance
RECURSIVE unique(_, _)
unique(lib, p) ==
    IF p >= len(lib) THEN <<>>
    ELSE LET rest == unique(lib, p + 1)
             here == lib[p].subject_id
         IN  <<here>> \o SelectSeq(rest, LAMBDA x : x # here)

\* df.loc[df['label']=='MSI', 'Class'] = 1; df.loc[df['label']=='MSS',
\* 'Class'] = 0: every other row keeps the NaN the new column is filled with
Class(label) ==
    IF label = "MSI" THEN 1 ELSE IF label = "MSS" THEN 0 ELSE NaN

load_data_and_get_class(df) ==
    [p \in DOMAIN df |->
        [subject_id |-> df[p].subject_id, slice_id |-> df[p].slice_id,
         label |-> df[p].label, Class |-> Class(df[p].label)]]

\* the positions of lib[lib['subject_id'] == g], in row order
RECURSIVE RowsOf(_, _, _)
RowsOf(lib, g, p) ==
    IF p >= len(lib) THEN <<>>
    ELSE (IF lib[p].subject_id = g THEN <<p>> ELSE <<>>)
         \o RowsOf(lib, g, p + 1)

\* for i, g in enumerate(unique): grid.extend(tiles);
\* slideIDX.extend([i]*len(tiles)). The result pairs are <<i, row>>.
RECURSIVE Flatten(_, _, _)
Flatten(lib, us, n) ==
    IF n > Len(us) THEN <<>>
    ELSE LET tiles == RowsOf(lib, us[n], 0)
         IN  [j \in 1 .. Len(tiles) |-> <<n - 1, tiles[j]>>]
             \o Flatten(lib, us, n + 1)

\* MILdataset.__init__ on the sorted frame lib
MILdataset(lib) ==
    LET us   == unique(lib, 0)
        flat == Arr(Flatten(lib, us, 1))
        df   == load_data_and_get_class(lib)
    IN  [dataframe |-> df,
         slides    |-> Arr(us),
         grid      |-> [x \in DOMAIN flat |-> lib[flat[x][2]].slice_id],
         slideIDX  |-> [x \in DOMAIN flat |-> flat[x][1]],
         targets   |-> [x \in DOMAIN df |-> df[x].Class]]

Manifests == UNION {Arrays(n, Rows) : n \in 1 .. MaxRows}

InitLoad ==
    /\ pc = "start"
    /\ TopKIdle
    /\ InferIdle
    /\ ErrIdle
    /\ EpochIdle
    /\ manifest \in Manifests
    /\ dataframe = <<>> /\ slides = <<>> /\ grid = <<>>
    /\ slideIDX = <<>> /\ targets = <<>> /\ t_data = <<>> /\ made = <<>>

\* train_dataset = MILdataset(lib_dir, root_dir, 'Train', ...)
Construct ==
    /\ pc = "start"
    /\ \E keep \in SUBSET DOMAIN manifest :
       \E lib \in SortedFrames(manifest, keep) :
          LET ds == MILdataset(lib)
          IN  /\ dataframe' = ds.dataframe
              /\ slides' = ds.slides
              /\ grid' = ds.grid
              /\ slideIDX' = ds.slideIDX
              /\ targets' = ds.targets
    /\ pc' = "constructed"
    /\ UNCHANGED <<manifest, t_data, made>>
    /\ UNCHANGED <<topkVars, inferVars, errVars, epochVars>>

NextLoad == Construct

SpecLoad == InitLoad /\ [][NextLoad]_vars

\* C8: a manifest with a label other than 'MSI' and 'MSS' is refused, so no
\* constructed dataset holds a tile whose class is neither 0 nor 1.
C8_LabelsValidated ==
    pc = "constructed" => \A x \in DOMAIN targets : targets[x] \in {0, 1}

\* self.t_data = [(self.slideIDX[x], self.grid[x], self.targets[x])
\*                for x in idxs]
maketraindata(idxs) ==
    [j \in DOMAIN idxs |->
        <<slideIDX[idxs[j]], grid[idxs[j]], targets[idxs[j]]>>]

\* how many rows of frame a equal r
Count(a, r) == Cardinality({p \in DOMAIN a : a[p] = r})
Bare(row) ==
    [subject_id |-> row.subject_id, slice_id |-> row.slice_id,
     label |-> row.label]

\* C9: after construction grid, slideIDX and targets have one length,
\* slideIDX is non-decreasing, and position x of the three lists describes
\* one row of the manifest: its slide, its tile and the class of its label;
\* so does every triple maketraindata builds.
C9_Aligned ==
    pc = "constructed" =>
        /\ DOMAIN grid = DOMAIN slideIDX
        /\ DOMAIN grid = DOMAIN targets
        /\ DOMAIN grid = DOMAIN dataframe
        /\ \A x, y \in DOMAIN slideIDX : x < y => slideIDX[x] <= slideIDX[y]
        /\ \A x \in DOMAIN grid :
              /\ slideIDX[x] \in DOMAIN slides
              /\ slides[slideIDX[x]] = dataframe[x].subject_id
              /\ grid[x] = dataframe[x].slice_id
              /\ targets[x] = Class(dataframe[x].label)
        /\ \A r \in Range(manifest) :
              Cardinality({p \in DOMAIN dataframe : Bare(dataframe[p]) = r})
                  <= Count(manifest, r)
        /\ \A x \in DOMAIN dataframe : Bare(dataframe[x]) \in Range(manifest)
        /\ \A x, y \in DOMAIN grid :
              LET idxs == Arr(<<x, y>>)
                  td   == maketraindata(idxs)
              IN  \A j \in DOMAIN idxs :
                     /\ slides[td[j][1]] = dataframe[idxs[j]].subject_id
                     /\ td[j][2] = dataframe[idxs[j]].slice_id
                     /\ td[j][3] = Class(dataframe[idxs[j]].label)

\* a manifest given out of slide order, whose slides differ in label
C9_Witness ==
    /\ pc = "constructed"
    /\ len(manifest) = 3
    /\ len(grid) = 3
    /\ manifest[0].subject_id = 2 /\ manifest[0].label = "MSS"
    /\ manifest[1].subject_id = 1 /\ manifest[1].label = "MSI"
    /\ manifest[2].subject_id = 2 /\ manifest[2].slice_id # manifest[0].slice_id
    /\ slideIDX = Arr(<<0, 1, 1>>)
    /\ targets = Arr(<<1, 0, 0>>)

(* ---------------- maketraindata / shuffletraindata -------------------- *)
\* random.choices(population, k=kk): drawing with replacement
choices(population, kk) == Arrays(kk, Range(population))

\* random.sample(population, kk): kk entries at distinct positions, in any
\* order
sample(population, kk) ==
    {[p \in 0 .. kk - 1 |-> population[f[p]]] :
        f \in {h \in [0 .. kk - 1 -> DOMAIN population] :
                 \A p, q \in 0 .. kk - 1 : p # q => h[p] # h[q]}}

\* the state after construction from a manifest of recognised labels that is
\* already in slide order
InitSubset ==
    /\ pc = "constructed"
    /\ TopKIdle
    /\ InferIdle
    /\ ErrIdle
    /\ EpochIdle
    /\ manifest \in Manifests
    /\ \A p \in DOMAIN manifest : manifest[p].label \in {"MSI", "MSS"}
    /\ manifest \in SortedFrames(manifest, DOMAIN manifest)
    /\ LET ds == MILdataset(manifest)
       IN  /\ dataframe = ds.dataframe
           /\ slides = ds.slides
           /\ grid = ds.grid
           /\ slideIDX = ds.slideIDX
           /\ targets = ds.targets
    /\ t_data = <<>>
    /\ made = <<>>

\* self.train_dataset.maketraindata(idxs), for in-range idxs
MakeTrainData ==
    /\ pc = "constructed"
    /\ \E m \in 0 .. MaxIdxs : \E idxs \in Arrays(m, DOMAIN grid) :
          /\ t_data' = maketraindata(idxs)
          /\ made' = maketraindata(idxs)
    /\ pc' = "made"
    /\ UNCHANGED <<dsVars, topkVars, inferVars, errVars, epochVars>>

\* self.t_data = random.sample(self.t_data, len(self.t_data))
ShuffleTrainData ==
    /\ pc = "made"
    /\ t_data' \in sample(t_data, len(t_data))
    /\ pc' = "shuffled"
    /\ UNCHANGED <<made, dsVars, topkVars, inferVars, errVars, epochVars>>

NextSubset == MakeTrainData \/ ShuffleTrainData

SpecSubset == InitSubset /\ [][NextSubset]_vars

\* C4: after maketraindata(idxs) and shuffletraindata(), t_data holds every
\* triple as many times as maketraindata produced it, and has the same length.
C4_ShufflePermutes ==
    pc = "shuffled" =>
        /\ len(t_data) = len(made)
        /\ \A t \in Range(made) \cup Range(t_data) :
              Count(t_data, t) = Count(made, t)

\* a subset of two different triples, which the shuffle swapped
C4_Witness ==
    /\ pc = "shuffled"
    /\ len(made) = 2
    /\ made[0] # made[1]
    /\ t_data[0] = made[1]
    /\ t_data[1] = made[0]

(* ----------------------------- calc_err ------------------------------- *)
\* float(x)/count for a numpy integer count: a quotient, or the nan / inf
\* that numpy returns (with a warning) when the count is 0
Divide(num, den) ==
    IF den # 0 THEN [kind |-> "rate", num |-> num, den |-> den]
    ELSE IF num = 0 THEN [kind |-> "nan", num |-> num, den |-> den]
    ELSE [kind |-> "inf", num |-> num, den |-> den]

\* how many entries of a 0/1 array equal v: (a == v).sum()
CountEq(a, v) == Cardinality({p \in DOMAIN a : a[p] = v})

\* np.logical_and(pred == v, neq).sum()
CountWrong(pr, re, v) ==
    Cardinality({p \in DOMAIN pr : pr[p] = v /\ pr[p] # re[p]})

calc_err(pr, re) ==
    LET pos == Cardinality({p \in DOMAIN pr : pr[p] = re[p]})
        neq == Cardinality({p \in DOMAIN pr : pr[p] # re[p]})
    IN  [acc |-> Divide(pos, len(pr)),
         err |-> Divide(neq, len(pr)),
         fpr |-> Divide(CountWrong(pr, re, 1), CountEq(re, 0)),
         fnr |-> Divide(CountWrong(pr, re, 0), CountEq(re, 1))]

InitErr ==
    /\ pc = "call"
    /\ TopKIdle
    /\ InferIdle
    /\ DatasetIdle
    /\ EpochIdle
    /\ \E n \in 1 .. MaxLen :
          /\ pred \in Arrays(n, {0, 1})
          /\ real \in Arrays(n, {0, 1})
    /\ metrics = <<>>

\* acc, err, fpr, fnr = self.calc_err(pred, labels)
CallCalcErr ==
    /\ pc = "call"
    /\ metrics' = calc_err(pred, real)
    /\ pc' = "returned"
    /\ UNCHANGED <<pred, real>>
    /\ UNCHANGED <<topkVars, inferVars, dsVars, subsetVars, epochVars>>

NextErr == CallCalcErr

SpecErr == InitErr /\ [][NextErr]_vars

\* C7: on a batch with no real == 0 the fpr is a not-computable sentinel and
\* the fnr a rate, on a batch with no real == 1 the fnr is the sentinel and
\* the fpr a rate; no metric is the outcome of a division by zero.
C7_DegenerateBatchGuarded ==
    pc = "returned" =>
        /\ \A m \in {metrics.acc, metrics.err, metrics.fpr, metrics.fnr} :
              m.kind \in {"rate", "not_computable"}
        /\ CountEq(real, 0) = 0 =>
              metrics.fpr.kind = "not_computable" /\ metrics.fnr.kind = "rate"
        /\ CountEq(real, 1) = 0 =>
              metrics.fnr.kind = "not_computable" /\ metrics.fpr.kind = "rate"

(* ------------------- the epoch loop of MIL_Module --------------------- *)
\* a variant that leaves the mode as it was
setmode_noop(old, new) == old

\* self.mode = mode
setmode(old, new) == new

\* MILdataset.__len__ under mode m: None (a TypeError in len()) for any
\* other mode, AttributeError while self.mode was never assigned
MILdataset_len(m, all, subset) ==
    IF m = Unset THEN [err |-> "AttributeError", n |-> 0]
    ELSE IF m = 1 THEN [err |-> "none", n |-> all]
    ELSE IF m = 2 THEN [err |-> "none", n |-> subset]
    ELSE [err |-> "TypeError", n |-> 0]

\* what MILdataset.__getitem__ returns under mode m: the image alone, or
\* the pair (image, target)
MILdataset_getitem(m) ==
    IF m = Unset THEN "AttributeError"
    ELSE IF m = 1 THEN "image"
    ELSE IF m = 2 THEN "pair"
    ELSE "UnboundLocalError"

\* a pass over train_dataset as the loader sees it
Read(by) ==
    [by |-> by, mode |-> mode',
     length |-> MILdataset_len(mode', len(grid), len(t_data)).n,
     kind |-> MILdataset_getitem(mode')]

\* the label every row of a slide carries in the manifests of the epoch runs
SlideLabel(subject) == IF subject = 1 THEN "MSI" ELSE "MSS"

\* the tile id of row p in the manifests of the epoch runs
TileAt(p) == IF p % 2 = 0 THEN "a" ELSE "b"

\* the state after main() built the datasets and the module: the train
\* manifest is in slide order, neither dataset has a mode yet
InitEpoch ==
    /\ pc = "Idle"
    /\ ErrIdle
    /\ groups = <<>> /\ data = <<>> /\ topk = <<>>
    /\ logits = <<>> /\ batch_i = 0 /\ probs = <<>> /\ writes = <<>>
    /\ k \in 1 .. MaxK
    /\ batch_size \in 1 .. MaxEpochBatch
    /\ \E n \in 1 .. MaxEpochRows :
          /\ manifest \in Arrays(n, Rows)
          /\ \A p \in DOMAIN manifest :
                /\ manifest[p].label = SlideLabel(manifest[p].subject_id)
                /\ manifest[p].slice_id = TileAt(p)
          /\ manifest \in SortedFrames(manifest, DOMAIN manifest)
    /\ LET ds == MILdataset(manifest)
       IN  /\ dataframe = ds.dataframe
           /\ slides = ds.slides
           /\ grid = ds.grid
           /\ slideIDX = ds.slideIDX
           /\ targets = ds.targets
    /\ t_data = <<>>
    /\ made = <<>>
    /\ mode = Unset
    /\ vmode = Unset
    /\ vlen \in 0 .. MaxVal
    /\ train_i = 0
    /\ val_i = 0
    /\ lastRead = NoRead
    /\ vread = "none"

\* on_train_epoch_start, lines 143-144: setmode(1), then the inference pass
\* over train_dataloader with the current weights. self.predict(model,
\* dataloaders) is taken to be the pass that inference() implements: one
\* class-1 probability per item, in loader order.
EnterInferencePass ==
    /\ pc = "Idle"
    /\ mode' = setmode(mode, 1)
    /\ lastRead' = Read("inference")
    /\ LET n == MILdataset_len(mode', len(grid), len(t_data))
       IN  IF n.err # "none"
           THEN /\ pc' = n.err
                /\ UNCHANGED <<probs, writes>>
           ELSE \E lg \in Arrays(n.n, Arrays(2, Logit)) :
                \E uninit \in Arrays(n.n, Garbage) :
                   LET st == inference(lg, batch_size, uninit)
                   IN  /\ probs' = st.probs
                       /\ writes' = st.writes
                       /\ pc' = IF st.err THEN "RuntimeError"
                                 ELSE "InferencePass"
    /\ UNCHANGED <<groups, data, k, topk, logits, batch_size, batch_i>>
    /\ UNCHANGED <<dsVars, subsetVars, errVars>>
    /\ UNCHANGED <<vmode, vlen, train_i, val_i, vread>>

\* line 146: topk = group_argtopk(np.array(slideIDX), probs, args.k). The
\* method is declared without self; the call is taken with the three
\* arguments the declaration names.
EnterSelectionPass ==
    /\ pc = "InferencePass"
    /\ IF DOMAIN probs # DOMAIN slideIDX
          \/ group_argtopk(slideIDX, probs, k) = "ValueError"
       THEN pc' = "ValueError" /\ topk' = <<>>
       ELSE pc' = "SelectionPass" /\ topk' = group_argtopk(slideIDX, probs, k)
    /\ UNCHANGED <<groups, data, k, inferVars, dsVars, subsetVars, errVars,
                   epochVars>>

\* line 147: train_dataset.maketraindata(topk)
EnterSubsetBuilt ==
    /\ pc = "SelectionPass"
    /\ t_data' = maketraindata(Arr(topk))
    /\ made' = maketraindata(Arr(topk))
    /\ pc' = "SubsetBuilt"
    /\ UNCHANGED <<topkVars, inferVars, dsVars, errVars, epochVars>>

\* lines 148-149: shuffletraindata(), setmode(2); the hook returns and its
\* locals probs and topk are gone
EnterShuffleDone ==
    /\ pc = "SubsetBuilt"
    /\ t_data' \in sample(t_data, len(t_data))
    /\ mode' = setmode(mode, 2)
    /\ probs' = <<>> /\ writes' = <<>> /\ topk' = <<>>
    /\ pc' = "ShuffleDone"
    /\ UNCHANGED <<groups, data, k, logits, batch_size, batch_i>>
    /\ UNCHANGED <<made, dsVars, errVars>>
    /\ UNCHANGED <<vmode, vlen, train_i, val_i, lastRead, vread>>

TrainBatches ==
    Batches(MILdataset_len(mode, len(grid), len(t_data)).n, batch_size)

\* training_step on the next batch of train_dataloader: input, labels = batch
TrainingStep ==
    /\ pc \in {"ShuffleDone", "TrainingPass"}
    /\ train_i < TrainBatches
    /\ UNCHANGED mode
    /\ lastRead' = Read("training")
    /\ train_i' = train_i + 1
    /\ pc' = IF MILdataset_getitem(mode) = "pair" THEN "TrainingPass"
             ELSE "ValueError"
    /\ UNCHANGED <<topkVars, inferVars, dsVars, subsetVars, errVars>>
    /\ UNCHANGED <<vmode, vlen, val_i, vread>>

\* the epoch ends with no validation pass due
EndEpoch ==
    /\ pc = "TrainingPass"
    /\ train_i >= TrainBatches
    /\ train_i' = 0
    /\ pc' = "Idle"
    /\ UNCHANGED <<topkVars, inferVars, dsVars, subsetVars, errVars>>
    /\ UNCHANGED <<mode, vmode, vlen, val_i, lastRead, vread>>

\* on_val_epoch_start: self.val_dataset.setmode(1)
OnValEpochStart ==
    /\ pc = "TrainingPass"
    /\ train_i >= TrainBatches
    /\ vmode' = setmode(vmode, 1)
    /\ train_i' = 0
    /\ val_i' = 0
    /\ pc' = "ValidationPass"
    /\ UNCHANGED <<topkVars, inferVars, dsVars, subsetVars, errVars>>
    /\ UNCHANGED <<mode, vlen, lastRead, vread>>

\* validation_step on the next batch of val_dataloader: input, labels = batch
\* has no labels to unpack unless the items are pairs
ValidationStep ==
    /\ pc = "ValidationPass"
    /\ val_i < Batches(MILdataset_len(vmode, vlen, 0).n, batch_size)
    /\ vread' = MILdataset_getitem(vmode)
    /\ val_i' = val_i + 1
    /\ pc' = IF MILdataset_getitem(vmode) = "pair" THEN "ValidationPass"
             ELSE "ValidationError"
    /\ UNCHANGED <<topkVars, inferVars, dsVars, subsetVars, errVars>>
    /\ UNCHANGED <<mode, vmode, vlen, train_i, lastRead>>

\* the validation loader is exhausted
EndValidation ==
    /\ pc = "ValidationPass"
    /\ val_i >= Batches(MILdataset_len(vmode, vlen, 0).n, batch_size)
    /\ pc' = "Idle"
    /\ UNCHANGED <<topkVars, inferVars, dsVars, subsetVars, errVars, epochVars>>

NextEpoch ==
    \/ EnterInferencePass
    \/ EnterSelectionPass
    \/ EnterSubsetBuilt
    \/ EnterShuffleDone
    \/ TrainingStep
    \/ EndEpoch
    \/ OnValEpochStart
    \/ ValidationStep
    \/ EndValidation

SpecEpoch == InitEpoch /\ [][NextEpoch]_vars

\* the order of the passes of one epoch, and of the validation after it
EpochOrder ==
    {<<"Idle", "InferencePass">>, <<"InferencePass", "SelectionPass">>,
     <<"SelectionPass", "SubsetBuilt">>, <<"SubsetBuilt", "ShuffleDone">>,
     <<"ShuffleDone", "TrainingPass">>, <<"TrainingPass", "Idle">>,
     <<"TrainingPass", "ValidationPass">>, <<"ValidationPass", "Idle">>,
     <<"ValidationPass", "ValidationError">>}

IsPermutation(a, b) ==
    /\ len(a) = len(b)
    /\ \A t \in Range(a) \cup Range(b) : Count(a, t) = Count(b, t)

C10_ValidationReadsPairs ==
    vread # "none" => vread = "pair"

====
